---------------------------- MODULE Spec2Model ----------------------------
(***************************************************************************)
(* NeoBank server: the fraud engine of the payment route, its per-account  *)
(* profiles, the blocked-transaction list and the user ledger.             *)
(*                                                                         *)
(* Numbers.  JavaScript computes in IEEE doubles; the model computes in    *)
(* fixed point.  A score or a raw anomaly value x is held as the integer   *)
(* x * ScoreScale (four decimals, the resolution toFixed(4) keeps).  Raw   *)
(* values saturate at RawCap: sigmoid is 1.0000 at four decimals from 10   *)
(* on, so nothing above the cap is observable.  Payment amounts are whole  *)
(* thousands of rupees (the z-scores are ratios, so the unit cancels);     *)
(* ledger money is in paise; distances are in units of 10 km; times are    *)
(* milliseconds since the server started (on an hour boundary).            *)
(***************************************************************************)
EXTENDS Integers, Sequences, FiniteSets, TLC

(***************************************************************************)
(* Resolutions and program constants                                       *)
(***************************************************************************)
ScoreScale == 10000

RawCap == 40 * ScoreScale

FRAUD_BLOCK_THRESHOLD == 7000

HourMs == 3600000

PaisePerAmountUnit == 100 * 1000

(***************************************************************************)
(* The ends of the doubles.  HugeAmount stands for the amount 1e308, a     *)
(* finite number above half of Number.MAX_VALUE: the sum of two of them,   *)
(* and the square of one, is Infinity.  NaN stands for the result of       *)
(* Infinity / Infinity; it is below every number the model compares it     *)
(* with, as every >= on NaN is false.                                      *)
(***************************************************************************)
HugeAmount == 20000

NaN == -999999999

HugeCount(values) == Cardinality({i \in 1..Len(values) : values[i] = HugeAmount})

\* n * m stays within the 32-bit integers that the arithmetic is evaluated in.
FitsTimes(n, m) == n <= 2147483647 \div m

Null == <<>>
Some(v) == <<v>>
ValueOf(o) == o[1]

Abs(x) == IF x < 0 THEN -x ELSE x
Min(a, b) == IF a <= b THEN a ELSE b
Max(a, b) == IF a >= b THEN a ELSE b

RECURSIVE SumSeq(_)
SumSeq(s) == IF s = <<>> THEN 0 ELSE s[1] + SumSeq(Tail(s))

RECURSIVE SumSquares(_)
SumSquares(s) == IF s = <<>> THEN 0 ELSE s[1] * s[1] + SumSquares(Tail(s))

(***************************************************************************)
(* Math.sqrt on a non-negative integer: the floor of the root, by          *)
(* bisection, and the root in fixed point (scaled by ScoreScale).          *)
(***************************************************************************)
RECURSIVE IsqrtBetween(_, _, _)
IsqrtBetween(n, lo, hi) ==
    IF lo >= hi THEN lo
    ELSE LET mid == (lo + hi + 1) \div 2
         IN  IF mid * mid <= n THEN IsqrtBetween(n, mid, hi)
             ELSE IsqrtBetween(n, lo, mid - 1)

Isqrt(n) == IsqrtBetween(n, 0, 46340)

RECURSIVE SqrtScaledBy(_, _)
SqrtScaledBy(n, k) ==
    IF k = 1 \/ FitsTimes(n, k * k)
    THEN Isqrt(n * k * k) * (ScoreScale \div k)
    ELSE SqrtScaledBy(n, k \div 10)

SqrtFix(n) == SqrtScaledBy(n, ScoreScale)

(***************************************************************************)
(* x / (sigma + EPSILON) for fixed-point x >= 0 and sigma >= 0, saturating *)
(* at RawCap.  EPSILON = 1e-9 is far below the resolution: with sigma = 0  *)
(* the quotient is x * 1e9, which is 0 for x = 0 and beyond the cap for    *)
(* every representable x > 0; with sigma > 0 the EPSILON does not show.    *)
(***************************************************************************)
RECURSIVE DivEps(_, _)
DivEps(x, sigma) ==
    IF x = 0 THEN 0
    ELSE IF sigma = 0 THEN RawCap
    ELSE IF x \div sigma >= RawCap \div ScoreScale THEN RawCap
    ELSE IF ~FitsTimes(sigma, ScoreScale)
         THEN DivEps(x \div 10, sigma \div 10)
    ELSE Min(RawCap, (x \div sigma) * ScoreScale + ((x % sigma) * ScoreScale) \div sigma)

SignedDivEps(x, sigma) == IF x < 0 THEN -DivEps(-x, sigma) ELSE DivEps(x, sigma)

(***************************************************************************)
(* sigmoid(x) = 1 / (1 + Math.exp(-x)): the values at multiples of 1/16,   *)
(* rounded to four decimals, with linear interpolation between them.       *)
(***************************************************************************)
SigmoidStep == ScoreScale \div 16

SigmoidTable ==
    << 5000, 5156, 5312, 5467, 5622, 5775, 5927, 6077, 6225, 6370, 6514, 6654,
       6792, 6926, 7058, 7186, 7311, 7432, 7549, 7663, 7773, 7879, 7982, 8081,
       8176, 8267, 8355, 8439, 8520, 8597, 8670, 8741, 8808, 8872, 8933, 8991,
       9047, 9099, 9149, 9196, 9241, 9284, 9325, 9363, 9399, 9433, 9466, 9497,
       9526, 9553, 9579, 9604, 9627, 9649, 9669, 9689, 9707, 9724, 9740, 9756,
       9770, 9784, 9797, 9809, 9820, 9831, 9841, 9850, 9859, 9868, 9876, 9883,
       9890, 9897, 9903, 9909, 9914, 9919, 9924, 9929, 9933, 9937, 9941, 9944,
       9948, 9951, 9954, 9957, 9959, 9962, 9964, 9966, 9968, 9970, 9972, 9974,
       9975, 9977, 9978, 9979, 9981, 9982, 9983, 9984, 9985, 9986, 9987, 9988,
       9988, 9989, 9990, 9990, 9991, 9991, 9992, 9992, 9993, 9993, 9994, 9994,
       9994, 9995, 9995, 9995, 9996, 9996, 9996, 9996, 9997, 9997, 9997, 9997,
       9997, 9998, 9998, 9998, 9998, 9998, 9998, 9998, 9998, 9999, 9999, 9999,
       9999, 9999, 9999, 9999, 9999, 9999, 9999, 9999, 9999, 9999, 9999, 9999,
       9999, 9999, 9999, 10000, 10000 >>

SigmoidPos(x) ==
    LET k == x \div SigmoidStep
        f == x % SigmoidStep
    IN  IF k + 2 > Len(SigmoidTable) THEN ScoreScale
        ELSE SigmoidTable[k + 1]
             + ((SigmoidTable[k + 2] - SigmoidTable[k + 1]) * f) \div SigmoidStep

sigmoid(x) ==
    IF x = NaN THEN NaN
    ELSE IF x >= 0 THEN SigmoidPos(x) ELSE ScoreScale - SigmoidPos(-x)

(***************************************************************************)
(* mean and std (population standard deviation) of a list of integers, in  *)
(* fixed point.  sqrt(sum((v - m)^2) / n) = sqrt(n*sum(v^2) - sum(v)^2)/n. *)
(***************************************************************************)
\* Mutant: the sum is divided by one more than the length.
mean_OverNextLength(values) ==
    IF Len(values) = 0 THEN 0
    ELSE (SumSeq(values) * ScoreScale) \div (Len(values) + 1)

mean(values) ==
    IF Len(values) = 0 THEN 0
    ELSE (SumSeq(values) * ScoreScale) \div Len(values)

std(values) ==
    IF Len(values) < 2 THEN 0
    ELSE LET n == Len(values)
             s == SumSeq(values)
         IN  SqrtFix(n * SumSquares(values) - s * s) \div n

(***************************************************************************)
(* GeoResolver: fallbackGeo and getGeo.  Latitudes and longitudes are held *)
(* as degrees * 10000.                                                     *)
(***************************************************************************)
fallbackGeo ==
    [ip \in {"8.8.8.8", "1.1.1.1", "127.0.0.1", "::1"} |->
        CASE ip = "8.8.8.8"   -> [lat |-> 373860,  lon |-> -1220838, asn |-> "AS15169"]
          [] ip = "1.1.1.1"   -> [lat |-> -338688, lon |-> 1512093,  asn |-> "AS13335"]
          [] ip = "127.0.0.1" -> [lat |-> 286139,  lon |-> 772090,   asn |-> "ASLOCAL"]
          [] ip = "::1"       -> [lat |-> 286139,  lon |-> 772090,   asn |-> "ASLOCAL"]]

\* Mutant: an unknown address falls back to the local entry.
getGeo_LocalFallback(ipAddress) ==
    IF ipAddress \in DOMAIN fallbackGeo THEN fallbackGeo[ipAddress]
    ELSE fallbackGeo["127.0.0.1"]

getGeo(ipAddress) ==
    IF ipAddress \in DOMAIN fallbackGeo THEN fallbackGeo[ipAddress]
    ELSE [lat |-> 0, lon |-> 0, asn |-> "ASN_UNKNOWN"]

(***************************************************************************)
(* haversineKm between the places getGeo can return, in units of 10 km     *)
(* (the formula with EARTH_RADIUS_KM = 6371, evaluated and rounded):       *)
(* 8.8.8.8 - 1.1.1.1 11951.95 km, 8.8.8.8 - 127.0.0.1 12405.54 km,         *)
(* 8.8.8.8 - (0,0) 12783.35 km, 1.1.1.1 - 127.0.0.1 10428.21 km,           *)
(* 1.1.1.1 - (0,0) 15199.45 km, 127.0.0.1 - (0,0) 8761.37 km.              *)
(***************************************************************************)
haversineKm(lat1, lon1, lat2, lon2) ==
    LET MV  == <<373860, -1220838>>
        SYD == <<-338688, 1512093>>
        DEL == <<286139, 772090>>
        ZER == <<0, 0>>
        pq  == {<<lat1, lon1>>, <<lat2, lon2>>}
    IN  CASE Cardinality(pq) = 1 -> 0
          [] pq = {MV, SYD}  -> 1195
          [] pq = {MV, DEL}  -> 1241
          [] pq = {MV, ZER}  -> 1278
          [] pq = {SYD, DEL} -> 1043
          [] pq = {SYD, ZER} -> 1520
          [] pq = {DEL, ZER} -> 876

(***************************************************************************)
(* AccountProfile store: getFraudState creates the profile on first use.   *)
(* A store is a function from the account ids that have a profile.         *)
(***************************************************************************)
EmptyFraudState ==
    [amounts |-> <<>>, timestamps |-> <<>>, geoDistances |-> <<>>,
     lastLat |-> Null, lastLon |-> Null, lastAsn |-> Null, lastTimestamp |-> Null]

\* Mutant: setting a key starts a new map.
MapPut_Only(m, k, v) == [x \in {k} |-> v]

MapPut(m, k, v) == [x \in DOMAIN m \cup {k} |-> IF x = k THEN v ELSE m[x]]

\* Mutant: the existence check is lost, so every call starts a new profile.
getFraudState_Recreate(store, userId) == MapPut(store, userId, EmptyFraudState)

getFraudState(store, userId) ==
    IF userId \in DOMAIN store THEN store ELSE MapPut(store, userId, EmptyFraudState)

(***************************************************************************)
(* computeFraudScores, lines 100-141: the three signals and their fusion,  *)
(* read from the profile as it is before this transaction.                 *)
(***************************************************************************)
\* Mutant: a timestamp exactly one hour old is left out.
WindowCount_Exclusive(timestamps, txTime) ==
    Cardinality({i \in 1..Len(timestamps) :
                    timestamps[i] > txTime - HourMs /\ timestamps[i] <= txTime}) + 1

WindowCount(timestamps, txTime) ==
    Cardinality({i \in 1..Len(timestamps) :
                    timestamps[i] >= txTime - HourMs /\ timestamps[i] <= txTime}) + 1

HourKey(ts) == ts \div HourMs

\* Object.values(byHour): one count per hour bucket, in order of first use.
HourlyCounts(timestamps) ==
    LET first == {i \in 1..Len(timestamps) :
                     \A j \in 1..(i - 1) : HourKey(timestamps[j]) # HourKey(timestamps[i])}
        countOf(i) == Cardinality({j \in 1..Len(timestamps) :
                                      HourKey(timestamps[j]) = HourKey(timestamps[i])})
        RECURSIVE build(_)
        build(i) == IF i > Len(timestamps) THEN <<>>
                    ELSE IF i \in first THEN <<countOf(i)>> \o build(i + 1)
                    ELSE build(i + 1)
    IN  build(1)

\* Mutant: with no history the spending baseline is 0, not the amount.
SpendRaw_ZeroBaseline(state, amount) ==
    LET muU    == IF Len(state.amounts) > 0 THEN mean(state.amounts) ELSE 0
        sigmaU == IF Len(state.amounts) > 1 THEN std(state.amounts) ELSE 0
    IN  DivEps(Abs(amount * ScoreScale - muU), sigmaU)

\* With two or more amounts in the history of which one is 1e308, std squares
\* a difference of that size: sigmaU is Infinity.  The mean is Infinity too
\* when two of them are 1e308 (the sum overflows), and then sSpend is
\* Infinity / Infinity; otherwise it is a finite number over Infinity.
SpendRaw(state, amount) ==
    LET muU    == IF Len(state.amounts) > 0 THEN mean(state.amounts) ELSE amount * ScoreScale
        sigmaU == IF Len(state.amounts) > 1 THEN std(state.amounts) ELSE 0
    IN  IF Len(state.amounts) > 1 /\ HugeCount(state.amounts) >= 2 THEN NaN
        ELSE IF Len(state.amounts) > 1 /\ HugeCount(state.amounts) = 1 THEN 0
        ELSE DivEps(Abs(amount * ScoreScale - muU), sigmaU)

VelocityRaw(state, txTime) ==
    LET nw           == WindowCount(state.timestamps, txTime)
        hourlyCounts == HourlyCounts(state.timestamps)
        lambdaU      == IF Len(hourlyCounts) > 0 THEN mean(hourlyCounts) ELSE 0
        sigmaLambda  == IF Len(hourlyCounts) > 1 THEN std(hourlyCounts) ELSE 0
    IN  SignedDivEps(nw * ScoreScale - lambdaU, sigmaLambda)

HasPrior(state) ==
    state.lastLat # Null /\ state.lastLon # Null /\ state.lastTimestamp # Null

DistanceKm(state, geo) ==
    IF HasPrior(state)
    THEN haversineKm(ValueOf(state.lastLat), ValueOf(state.lastLon), geo.lat, geo.lon)
    ELSE 0

\* Mutant: the elapsed time is taken in milliseconds, not hours.
SpeedSub_Milliseconds(state, geo, txTime) ==
    IF HasPrior(state)
    THEN Min(ScoreScale,
             DivEps(10 * DistanceKm(state, geo), 900 * (txTime - ValueOf(state.lastTimestamp))))
    ELSE 0

\* Math.min(1, v / 900) with v = distanceKm / Math.max(dt / 3600000, EPSILON):
\* (10 km * d) * 3600000 / (dt * 900) = 40000 * d / dt.
SpeedSub(state, geo, txTime) ==
    IF HasPrior(state)
    THEN Min(ScoreScale,
             DivEps(40000 * DistanceKm(state, geo), txTime - ValueOf(state.lastTimestamp)))
    ELSE 0

\* Mutant: the operator is compared without asking for a previous position.
AsnSub_NoPriorCheck(state, geo) ==
    IF Some(geo.asn) # state.lastAsn THEN ScoreScale ELSE 0

AsnSub(state, geo) ==
    IF HasPrior(state) /\ Some(geo.asn) # state.lastAsn THEN ScoreScale ELSE 0

HistSub(state, geo) ==
    IF HasPrior(state)
    THEN LET geoStd == IF Len(state.geoDistances) > 1 THEN std(state.geoDistances) ELSE 0
         IN  DivEps(DistanceKm(state, geo) * ScoreScale, geoStd)
    ELSE 0

GeoRaw(state, geo, txTime) ==
    (5 * SpeedSub(state, geo, txTime) + 3 * HistSub(state, geo) + 2 * AsnSub(state, geo)) \div 10

\* Mutant: the three signals weigh the same.
RiskRaw_EqualWeights(sSpendNorm, sVelocityNorm, sGeoNorm) ==
    (sSpendNorm + sVelocityNorm + sGeoNorm) \div 3

\* Mutant: the weights are left out.
RiskRaw_Unweighted(sSpendNorm, sVelocityNorm, sGeoNorm) ==
    sSpendNorm + sVelocityNorm + sGeoNorm

RiskRaw(sSpendNorm, sVelocityNorm, sGeoNorm) ==
    IF NaN \in {sSpendNorm, sVelocityNorm, sGeoNorm} THEN NaN
    ELSE (4 * sSpendNorm + 3 * sVelocityNorm + 3 * sGeoNorm + 5) \div 10

Scores(state, amount, txTime, geo) ==
    LET sSpendNorm    == sigmoid(SpendRaw(state, amount))
        sVelocityNorm == sigmoid(VelocityRaw(state, txTime))
        sGeoNorm      == sigmoid(GeoRaw(state, geo, txTime))
    IN  [spending_score   |-> sSpendNorm,
         velocity_score   |-> sVelocityNorm,
         geo_score        |-> sGeoNorm,
         fraud_risk_score |-> sigmoid(RiskRaw(sSpendNorm, sVelocityNorm, sGeoNorm))]

(***************************************************************************)
(* computeFraudScores, lines 143-151: the ProfileUpdater.                  *)
(***************************************************************************)
\* Mutant: the distance is pushed without asking for a previous position.
Commit_AlwaysDistance(state, amount, txTime, geo) ==
    [amounts       |-> Append(state.amounts, amount),
     timestamps    |-> Append(state.timestamps, txTime),
     geoDistances  |-> Append(state.geoDistances, DistanceKm(state, geo)),
     lastLat       |-> Some(geo.lat),
     lastLon       |-> Some(geo.lon),
     lastAsn       |-> Some(geo.asn),
     lastTimestamp |-> Some(txTime)]

\* Mutant: the last-seen fields are written only for a new profile.
Commit_StaleLastSeen(state, amount, txTime, geo) ==
    [amounts       |-> Append(state.amounts, amount),
     timestamps    |-> Append(state.timestamps, txTime),
     geoDistances  |-> IF state.lastLat # Null /\ state.lastLon # Null
                       THEN Append(state.geoDistances, DistanceKm(state, geo))
                       ELSE state.geoDistances,
     lastLat       |-> IF state.lastLat = Null THEN Some(geo.lat) ELSE state.lastLat,
     lastLon       |-> IF state.lastLon = Null THEN Some(geo.lon) ELSE state.lastLon,
     lastAsn       |-> IF state.lastAsn = Null THEN Some(geo.asn) ELSE state.lastAsn,
     lastTimestamp |-> IF state.lastTimestamp = Null THEN Some(txTime)
                       ELSE state.lastTimestamp]

Commit(state, amount, txTime, geo) ==
    [amounts       |-> Append(state.amounts, amount),
     timestamps    |-> Append(state.timestamps, txTime),
     geoDistances  |-> IF state.lastLat # Null /\ state.lastLon # Null
                       THEN Append(state.geoDistances, DistanceKm(state, geo))
                       ELSE state.geoDistances,
     lastLat       |-> Some(geo.lat),
     lastLon       |-> Some(geo.lon),
     lastAsn       |-> Some(geo.asn),
     lastTimestamp |-> Some(txTime)]

\* Mutant: the commit goes to a copy; the store keeps what it had.
StoreAfter_Copy(created, userId, committed) == created

\* Mutant: every account's entry is one shared object.
StoreAfter_Shared(created, userId, committed) == [x \in DOMAIN created |-> committed]

\* The profile is mutated in place: the store holds the object that was read.
StoreAfter(created, userId, committed) == [created EXCEPT ![userId] = committed]

\* Mutant: the transaction is committed first and scored from what results.
computeFraudScores_CommitFirst(store, tx) ==
    LET created   == getFraudState(store, tx.user_id)
        state     == created[tx.user_id]
        geo       == getGeo(tx.ip_address)
        committed == Commit(state, tx.amount, tx.timestamp, geo)
    IN  [scores |-> Scores(committed, tx.amount, tx.timestamp, geo),
         seen   |-> Len(state.amounts),
         store  |-> StoreAfter(created, tx.user_id, committed)]

\* The whole call: the scores returned and the store it leaves.
computeFraudScores(store, tx) ==
    LET created == getFraudState(store, tx.user_id)
        state   == created[tx.user_id]
        geo     == getGeo(tx.ip_address)
    IN  [scores |-> Scores(state, tx.amount, tx.timestamp, geo),
         seen   |-> Len(state.amounts),
         store  |-> StoreAfter(created, tx.user_id,
                               Commit(state, tx.amount, tx.timestamp, geo))]

(***************************************************************************)
(* The user ledger: getUserLedger creates the default ledger on first use. *)
(* A title is the list of the parts the template string joins.             *)
(***************************************************************************)
DefaultLedger ==
    [balances     |-> [savings |-> 24590050, current |-> 87011000, creditDue |-> 1248000],
     transactions |-> << [title |-> <<"UPI to GroceryHub">>, amount |-> -124000],
                         [title |-> <<"Salary Credit">>,     amount |-> 9600000],
                         [title |-> <<"EMI Auto Debit">>,    amount |-> -1984000],
                         [title |-> <<"Interest Payout">>,   amount |-> 233000] >>,
     requests     |-> << [from |-> "AC45312098", amount |-> 220000,  note |-> "Team lunch split"],
                         [from |-> "AC99081134", amount |-> 1250000, note |-> "Vendor pending invoice"] >>]

getUserLedger(ledgers, userId) ==
    IF userId \in DOMAIN ledgers THEN ledgers ELSE MapPut(ledgers, userId, DefaultLedger)

\* Mutant: push instead of unshift.
Unshift_Push(list, item) == Append(list, item)

Unshift(list, item) == <<item>> \o list

TitleSuffix(counterparty, note) ==
    <<counterparty>> \o (IF note # "" THEN <<" (", note, ")">> ELSE <<>>)

\* Mutant: the savings are debited before the balance is checked.
LedgerEffect_DebitBeforeCheck(ledgers, userId, type, counterparty, amt, note) ==
    LET got    == getUserLedger(ledgers, userId)
        ledger == got[userId]
        paise  == amt * PaisePerAmountUnit
    IN  IF type = "transfer"
        THEN IF paise > ledger.balances.savings
             THEN [status |-> 400, error |-> "Insufficient savings balance for transfer.",
                   ledgers |-> [got EXCEPT ![userId].balances.savings = @ - paise]]
             ELSE [status |-> 200, error |-> "",
                   ledgers |-> [got EXCEPT
                      ![userId].balances.savings = @ - paise,
                      ![userId].transactions =
                          Unshift(@, [title  |-> <<"Transfer to ">> \o TitleSuffix(counterparty, note),
                                      amount |-> -paise])]]
        ELSE IF type = "request"
        THEN [status |-> 200, error |-> "",
              ledgers |-> [got EXCEPT
                 ![userId].requests =
                     Unshift(@, [from |-> counterparty, amount |-> paise,
                                 note |-> IF note # "" THEN note ELSE "Fund request"]),
                 ![userId].transactions =
                     Unshift(@, [title  |-> <<"Request sent to ">> \o TitleSuffix(counterparty, note),
                                 amount |-> 0])]]
        ELSE [status |-> 400, error |-> "Unknown payment type.", ledgers |-> got]

\* Mutant: the balance check is lost.
LedgerEffect_NoBalanceCheck(ledgers, userId, type, counterparty, amt, note) ==
    LET got    == getUserLedger(ledgers, userId)
        ledger == got[userId]
        paise  == amt * PaisePerAmountUnit
    IN  IF type = "transfer"
        THEN IF FALSE
             THEN [status |-> 400, error |-> "Insufficient savings balance for transfer.",
                   ledgers |-> got]
             ELSE [status |-> 200, error |-> "",
                   ledgers |-> [got EXCEPT
                      ![userId].balances.savings = @ - paise,
                      ![userId].transactions =
                          Unshift(@, [title  |-> <<"Transfer to ">> \o TitleSuffix(counterparty, note),
                                      amount |-> -paise])]]
        ELSE IF type = "request"
        THEN [status |-> 200, error |-> "",
              ledgers |-> [got EXCEPT
                 ![userId].requests =
                     Unshift(@, [from |-> counterparty, amount |-> paise,
                                 note |-> IF note # "" THEN note ELSE "Fund request"]),
                 ![userId].transactions =
                     Unshift(@, [title  |-> <<"Request sent to ">> \o TitleSuffix(counterparty, note),
                                 amount |-> 0])]]
        ELSE [status |-> 400, error |-> "Unknown payment type.", ledgers |-> got]

\* Lines 295-326: what the accepted branch answers and the ledgers it leaves.
LedgerEffect(ledgers, userId, type, counterparty, amt, note) ==
    LET got    == getUserLedger(ledgers, userId)
        ledger == got[userId]
        paise  == amt * PaisePerAmountUnit
    IN  IF type = "transfer"
        THEN IF paise > ledger.balances.savings
             THEN [status |-> 400, error |-> "Insufficient savings balance for transfer.",
                   ledgers |-> got]
             ELSE [status |-> 200, error |-> "",
                   ledgers |-> [got EXCEPT
                      ![userId].balances.savings = @ - paise,
                      ![userId].transactions =
                          Unshift(@, [title  |-> <<"Transfer to ">> \o TitleSuffix(counterparty, note),
                                      amount |-> -paise])]]
        ELSE IF type = "request"
        THEN [status |-> 200, error |-> "",
              ledgers |-> [got EXCEPT
                 ![userId].requests =
                     Unshift(@, [from |-> counterparty, amount |-> paise,
                                 note |-> IF note # "" THEN note ELSE "Fund request"]),
                 ![userId].transactions =
                     Unshift(@, [title  |-> <<"Request sent to ">> \o TitleSuffix(counterparty, note),
                                 amount |-> 0])]]
        ELSE [status |-> 400, error |-> "Unknown payment type.", ledgers |-> got]

(***************************************************************************)
(* POST /api/payment, lines 251-327.                                       *)
(***************************************************************************)
\* String.prototype.toLowerCase on the ids and emails the model sends.
ToLowerCase(str) ==
    IF str = "A1" THEN "a1" ELSE IF str = "U@X.io" THEN "u@x.io" ELSE str

\* Mutant: the amount is not checked.
ValidPayload_NoAmountCheck(userId, counterparty, type, amt) ==
    ~(userId = "" \/ counterparty = "" \/ type = "")

\* Line 256, negated: the payload that is scored.
ValidPayload(userId, counterparty, type, amt) ==
    ~(userId = "" \/ counterparty = "" \/ type = "" \/ amt = 0 \/ amt <= 0)

\* Mutant: the gate reads the wrong score.
Blocks_SpendingScore(scores) == scores.spending_score >= FRAUD_BLOCK_THRESHOLD

\* Line 275.
Blocks(scores) == scores.fraud_risk_score >= FRAUD_BLOCK_THRESHOLD

\* Number(score.toFixed(4)): the model's scores are four-decimal already.
ToFixed4(score) == score

\* Lines 276-285.
BlockedRecord(tx, scores, type, counterparty) ==
    [transaction_id |-> tx.transaction_id,
     user_id        |-> tx.user_id,
     amount         |-> tx.amount,
     reason         |-> "Blocked by fraud engine",
     risk           |-> ToFixed4(scores.fraud_risk_score),
     type           |-> type,
     counterparty   |-> counterparty,
     timestamp      |-> tx.timestamp]

\* Mutant: the block branch answers 403 and falls through to the ledger.
GateThenLedger_FallThrough(blockNow, ledgers, userId, type, counterparty, amt, note) ==
    IF blockNow
    THEN [status |-> 403, error |-> "",
          ledgers |-> LedgerEffect(ledgers, userId, type, counterparty, amt, note).ledgers]
    ELSE LedgerEffect(ledgers, userId, type, counterparty, amt, note)

\* Lines 275-326: the block branch returns before the ledger is touched.
GateThenLedger(blockNow, ledgers, userId, type, counterparty, amt, note) ==
    IF blockNow
    THEN [status |-> 403, error |-> "", ledgers |-> ledgers]
    ELSE LedgerEffect(ledgers, userId, type, counterparty, amt, note)

\* Lines 260-271: the id is TXN-<Date.now()>, the timestamp the same instant.
\* The device hash is derived from a header and read by nothing.
MakeTx(userId, amt, ip, clock) ==
    [transaction_id |-> clock, user_id |-> userId, timestamp |-> clock,
     amount |-> amt, ip_address |-> ip]

NoScores ==
    [spending_score |-> 0, velocity_score |-> 0, geo_score |-> 0, fraud_risk_score |-> 0]

\* Mutant: the record is stored whatever the decision.
BlockedListAfter_Always(gate, blockedList, rec) == Unshift(blockedList, rec)

\* Lines 275-286: a record is put in front of the list in the block branch only.
BlockedListAfter(gate, blockedList, rec) ==
    IF gate THEN Unshift(blockedList, rec) ELSE blockedList

\* The whole handler as a function of the state it reads and the clock.
PaymentOutcome(store, blockedList, ledgers, req, clock) ==
    LET userId == ToLowerCase(req.user_id)
        amt    == req.amount
    IN  IF ~ValidPayload(userId, req.counterparty, req.type, amt)
        THEN [status |-> 400, blocked |-> FALSE, error |-> "Invalid payment payload.",
              scored |-> FALSE, seen |-> 0, scores |-> NoScores,
              store |-> store, blockedRec |-> Null, blockedList |-> blockedList,
              ledgers |-> ledgers]
        ELSE LET tx   == MakeTx(userId, amt, req.ip, clock)
                 r    == computeFraudScores(store, tx)
                 gate == Blocks(r.scores)
                 out  == GateThenLedger(gate, ledgers, userId, req.type,
                                        req.counterparty, amt, req.note)
                 rec  == BlockedRecord(tx, r.scores, req.type, req.counterparty)
             IN  [status |-> out.status, blocked |-> gate, error |-> out.error,
                  scored |-> TRUE, seen |-> r.seen, scores |-> r.scores,
                  store |-> r.store,
                  blockedRec |-> IF gate THEN Some(rec) ELSE Null,
                  blockedList |-> BlockedListAfter(gate, blockedList, rec),
                  ledgers |-> out.ledgers]

(***************************************************************************)
(* State.  The program's: userFraudState, blockedFraudTransactions,        *)
(* userLedger and the clock (Date.now()).  For the claims: the requests    *)
(* sent and not yet handled, the last request handled with its answer,     *)
(* what the admin endpoint last answered (an admin client starts with an   *)
(* empty table), and the history of what was scored, blocked and sent.     *)
(***************************************************************************)
VARIABLES userFraudState, blockedFraudTransactions, userLedger, now,
          inflight, last, adminAnswer, nReq, nScored, blockLog, nSent, overlapped,
          nBlocked, otpStore, smtpPass, otpAnswer, otpSpent, otpIssued,
          selectedRole, otpRequested, localOtp, loggedInUserId, activeViews,
          logoutHidden, forgotPending, verifyPending, bankingState, nClicks, clientLast

vars == <<userFraudState, blockedFraudTransactions, userLedger, now,
          inflight, last, adminAnswer, nReq, nScored, blockLog, nSent, overlapped,
          nBlocked, otpStore, smtpPass, otpAnswer, otpSpent, otpIssued,
          selectedRole, otpRequested, localOtp, loggedInUserId, activeViews,
          logoutHidden, forgotPending, verifyPending, bankingState, nClicks, clientLast>>

\* The one-time-passcode side: otpStore, whether SMTP_PASS is set, what the
\* OTP routes last answered, the keys verified since their last issue, and
\* when each key's passcode was last issued.
otpVars == <<otpStore, smtpPass, otpAnswer, otpSpent, otpIssued>>

NoOtpAnswer == [op |-> "none", email |-> "", otp |-> "", status |-> 0, error |-> "", at |-> 0]

\* The browser side (script.js): the role picked, whether a passcode was
\* requested, the demo passcode, who is logged in, the views that carry the
\* class "active", whether the logout button is hidden, the send-otp and
\* verify-otp requests the page is waiting for, its copy of the ledger, and,
\* for the claims, the clicks made and what the page did last.
clientVars == <<selectedRole, otpRequested, localOtp, loggedInUserId, activeViews,
                logoutHidden, forgotPending, verifyPending, bankingState, nClicks,
                clientLast>>

NoClientEvent == [seq |-> 0, op |-> "none", via |-> "none", email |-> "", otp |-> ""]

MaxReq == 3

MaxTicks == 3

MaxInflight == 2

TickMs == 30 * 60 * 1000

AccountIds == {"a1", "b2"}

EmptyMap == [x \in {} |-> 0]

NoReq == [user_id |-> "", type |-> "", counterparty |-> "", amount |-> 0,
          note |-> "", ip |-> ""]

NoAnswer ==
    [op |-> "none", req |-> NoReq, status |-> 0, blocked |-> FALSE, error |-> "",
     scored |-> FALSE, seen |-> 0, scores |-> NoScores, at |-> 0, ledger |-> Null]

\* The requests the model sends: the ones that reach the scoring, with two
\* accounts, two amounts and three addresses; the payment types, with and
\* without a note, and a transfer beyond the savings balance; and one request
\* for each way the payload can be malformed.
BaseReq == [user_id |-> "A1", type |-> "transfer", counterparty |-> "AC77",
            amount |-> 1, note |-> "", ip |-> "127.0.0.1"]

ScoringRequests ==
    {[BaseReq EXCEPT !.amount = a, !.ip = i] :
        a \in {1, 2}, i \in {"127.0.0.1", "8.8.8.8", ""}}
    \cup {[BaseReq EXCEPT !.user_id = "b2", !.amount = a] : a \in {1, 2}}

LedgerRequests ==
    { [BaseReq EXCEPT !.amount = 246],
      [BaseReq EXCEPT !.amount = 2, !.note = "rent"],
      [BaseReq EXCEPT !.amount = 2, !.type = "request"],
      [BaseReq EXCEPT !.amount = 2, !.type = "request", !.note = "rent"],
      [BaseReq EXCEPT !.amount = 2, !.type = "bogus"] }

MalformedRequests ==
    { [BaseReq EXCEPT !.user_id = ""], [BaseReq EXCEPT !.amount = 0],
      [BaseReq EXCEPT !.amount = -1], [BaseReq EXCEPT !.counterparty = ""],
      [BaseReq EXCEPT !.type = ""], [BaseReq EXCEPT !.ip = "not-an-address"] }

Requests == ScoringRequests \cup LedgerRequests \cup MalformedRequests

\* The state after the module is loaded, but for SMTP_PASS.
InitStores ==
    /\ userFraudState = EmptyMap
    /\ blockedFraudTransactions = <<>>
    /\ userLedger = EmptyMap
    /\ now = 0
    /\ inflight = {}
    /\ last = NoAnswer
    /\ adminAnswer = [count |-> 0, items |-> <<>>]
    /\ nReq = 0
    /\ nScored = [u \in AccountIds |-> 0]
    /\ blockLog = <<>>
    /\ nSent = [u \in AccountIds |-> 0]
    /\ overlapped = FALSE
    /\ nBlocked = 0
    /\ otpStore = EmptyMap
    /\ otpAnswer = NoOtpAnswer
    /\ otpSpent = {}
    /\ otpIssued = EmptyMap
    /\ selectedRole = "user"
    /\ otpRequested = FALSE
    /\ localOtp = ""
    /\ loggedInUserId = ""
    /\ activeViews = {"login"}
    /\ logoutHidden = TRUE
    /\ forgotPending = Null
    /\ verifyPending = {}
    /\ bankingState = DefaultLedger
    /\ nClicks = 0
    /\ clientLast = NoClientEvent

\* The payment routes never read SMTP_PASS: they are explored with it set.
Init == InitStores /\ smtpPass = TRUE

\* The event loop runs the handler of one request to completion: the handler
\* has no await, so nothing else runs between its first and last line.
HandleWithin(req, maxReq) ==
    LET out    == PaymentOutcome(userFraudState, blockedFraudTransactions, userLedger, req, now)
        userId == ToLowerCase(req.user_id)
    IN  /\ nReq < maxReq
        /\ userFraudState' = out.store
        /\ blockedFraudTransactions' = out.blockedList
        /\ userLedger' = out.ledgers
        /\ last' = [NoAnswer EXCEPT !.op = "payment", !.req = req, !.status = out.status,
                       !.blocked = out.blocked, !.error = out.error, !.scored = out.scored,
                       !.seen = out.seen, !.scores = out.scores, !.at = now,
                       !.ledger = IF out.status = 200 THEN Some(out.ledgers[userId]) ELSE Null]
        /\ nReq' = nReq + 1
        /\ nScored' = IF out.scored THEN [nScored EXCEPT ![userId] = @ + 1] ELSE nScored
        /\ blockLog' = blockLog \o out.blockedRec
        /\ nBlocked' = IF out.status = 403 THEN nBlocked + 1 ELSE nBlocked
        /\ UNCHANGED <<now, adminAnswer>>
        /\ UNCHANGED otpVars
        /\ UNCHANGED clientVars

Handle(req) == HandleWithin(req, MaxReq)

\* A request that arrives and is handled at once.
Payment(req) ==
    /\ inflight = {}
    /\ Handle(req)
    /\ UNCHANGED <<inflight, nSent, overlapped>>

\* GET /api/user-dashboard, lines 243-249.
UserDashboard(userIdRaw) ==
    LET userId == ToLowerCase(userIdRaw)
    IN  /\ inflight = {}
        /\ nReq < MaxReq
        /\ nReq' = nReq + 1
        /\ IF userId = ""
           THEN /\ last' = [NoAnswer EXCEPT !.op = "dashboard", !.status = 400,
                               !.error = "user_id is required.", !.at = now]
                /\ UNCHANGED userLedger
           ELSE /\ userLedger' = getUserLedger(userLedger, userId)
                /\ last' = [NoAnswer EXCEPT !.op = "dashboard", !.status = 200, !.at = now,
                               !.req = [NoReq EXCEPT !.user_id = userIdRaw],
                               !.ledger = Some(getUserLedger(userLedger, userId)[userId])]
        /\ UNCHANGED <<userFraudState, blockedFraudTransactions, now, inflight,
                       adminAnswer, nScored, blockLog, nSent, overlapped, nBlocked>>
        /\ UNCHANGED otpVars
        /\ UNCHANGED clientVars

\* GET /api/admin/fraud-transactions, lines 329-334.
AdminFraudTransactions ==
    /\ inflight = {}
    /\ adminAnswer' = [count |-> Len(blockedFraudTransactions),
                       items |-> blockedFraudTransactions]
    /\ UNCHANGED <<userFraudState, blockedFraudTransactions, userLedger, now, inflight,
                   last, nReq, nScored, blockLog, nSent, overlapped, nBlocked>>
    /\ UNCHANGED otpVars
    /\ UNCHANGED clientVars

\* Time passes.
Tick ==
    /\ now + TickMs <= MaxTicks * TickMs
    /\ now' = now + TickMs
    /\ UNCHANGED <<userFraudState, blockedFraudTransactions, userLedger, inflight,
                   last, adminAnswer, nReq, nScored, blockLog, nSent, overlapped, nBlocked>>
    /\ UNCHANGED otpVars
    /\ UNCHANGED clientVars

Next ==
    \/ \E req \in Requests : Payment(req)
    \/ \E u \in {"", "A1", "b2"} : UserDashboard(u)
    \/ AdminFraudTransactions
    \/ Tick

Spec == Init /\ [][Next]_vars

(***************************************************************************)
(* Requests in flight: clients send concurrently, the event loop takes the *)
(* pending requests in any order and runs each handler to completion.      *)
(***************************************************************************)
ConcRequests ==
    {[BaseReq EXCEPT !.user_id = u, !.amount = a] : u \in {"A1", "b2"}, a \in {1, 2}}
    \cup {[BaseReq EXCEPT !.amount = 0]}

Scorable(req) ==
    ValidPayload(ToLowerCase(req.user_id), req.counterparty, req.type, req.amount)

PendingFor(userId) ==
    {e \in inflight : Scorable(e.req) /\ ToLowerCase(e.req.user_id) = userId}

Send(req) ==
    LET userId == ToLowerCase(req.user_id)
    IN  /\ Cardinality(inflight) < MaxInflight
        /\ nReq + Cardinality(inflight) < MaxReq
        /\ inflight' = inflight \cup {[id |-> nReq + Cardinality(inflight) + 1, req |-> req]}
        /\ nSent' = IF Scorable(req) THEN [nSent EXCEPT ![userId] = @ + 1] ELSE nSent
        /\ overlapped' = (overlapped \/ (Scorable(req) /\ PendingFor(userId) # {}))
        /\ UNCHANGED <<userFraudState, blockedFraudTransactions, userLedger, now,
                       last, adminAnswer, nReq, nScored, blockLog, nBlocked>>
        /\ UNCHANGED otpVars
        /\ UNCHANGED clientVars

Deliver(e) ==
    /\ e \in inflight
    /\ Handle(e.req)
    /\ inflight' = inflight \ {e}
    /\ UNCHANGED <<nSent, overlapped>>

NextConc ==
    \/ \E req \in ConcRequests : Send(req)
    \/ \E e \in inflight : Deliver(e)
    \/ Tick

SpecConc == Init /\ [][NextConc]_vars

(***************************************************************************)
(* One-time passcodes: POST /api/send-otp and POST /api/verify-otp.        *)
(* otpStore maps a lower-cased email to the passcode and its expiry time.  *)
(***************************************************************************)
\* The regular expression of validEmail on the emails the model sends:
\* something@something.something without blanks or a second @.
validEmail(email) == email \in {"u@x.io", "U@X.io", "v@y.io"}

OtpTtlMs == 5 * 60 * 1000

MapRemove(m, k) == [x \in DOMAIN m \ {k} |-> m[x]]

\* Lines 198-200: what send-otp stores.
OtpRecord(otp, clock) == [otp |-> otp, expiresAt |-> clock + OtpTtlMs]

\* Mutant: the record is stored under the email as it was typed.
SendOutcome_RawKey(store, configured, email, otp, mailSent, clock) ==
    IF email = "" \/ ~validEmail(email)
    THEN [status |-> 400, error |-> "Valid email is required.", store |-> store,
          issued |-> FALSE]
    ELSE IF ~configured
    THEN [status |-> 500, error |-> "SMTP is not configured.", store |-> store,
          issued |-> FALSE]
    ELSE [status |-> IF mailSent THEN 200 ELSE 500,
          error  |-> IF mailSent THEN "" ELSE "Failed to send OTP email.",
          store  |-> MapPut(store, email, OtpRecord(otp, clock)),
          issued |-> TRUE]

\* Lines 184-215.  The store is written before the mail is awaited; what
\* follows the await only picks the answer.
SendOutcome(store, configured, email, otp, mailSent, clock) ==
    IF email = "" \/ ~validEmail(email)
    THEN [status |-> 400, error |-> "Valid email is required.", store |-> store,
          issued |-> FALSE]
    ELSE IF ~configured
    THEN [status |-> 500, error |-> "SMTP is not configured.", store |-> store,
          issued |-> FALSE]
    ELSE [status |-> IF mailSent THEN 200 ELSE 500,
          error  |-> IF mailSent THEN "" ELSE "Failed to send OTP email.",
          store  |-> MapPut(store, ToLowerCase(email), OtpRecord(otp, clock)),
          issued |-> TRUE]

\* Mutant: the expiry is never looked at.
Expired_Never(clock, record) == FALSE

\* Line 230.
Expired(clock, record) == clock > record.expiresAt

\* Mutant: a verified passcode stays in the store.
AfterVerified_Keep(store, key) == store

\* Line 239.
AfterVerified(store, key) == MapRemove(store, key)

\* Lines 217-241.
VerifyOutcome(store, email, otp, clock) ==
    LET key == ToLowerCase(email)
    IN  IF key = "" \/ otp = ""
        THEN [status |-> 400, error |-> "Email and OTP are required.", store |-> store]
        ELSE IF key \notin DOMAIN store
        THEN [status |-> 400, error |-> "OTP not requested for this email.", store |-> store]
        ELSE IF Expired(clock, store[key])
        THEN [status |-> 400, error |-> "OTP expired. Please request a new OTP.",
              store |-> MapRemove(store, key)]
        ELSE IF otp # store[key].otp
        THEN [status |-> 400, error |-> "Invalid OTP.", store |-> store]
        ELSE [status |-> 200, error |-> "", store |-> AfterVerified(store, key)]

MaxOtpReq == 4

MaxOtpTicks == 3

OtpTickMs == 150 * 1000

Emails == {"u@x.io", "U@X.io", "v@y.io", "", "nobody"}

Passcodes == {"111111", "222222"}

paymentVars == <<userFraudState, blockedFraudTransactions, userLedger, inflight, last,
                 adminAnswer, nScored, blockLog, nSent, overlapped, nBlocked>>

SendOtp(email, otp, mailSent) ==
    LET out == SendOutcome(otpStore, smtpPass, email, otp, mailSent, now)
        key == ToLowerCase(email)
    IN  /\ nReq < MaxOtpReq
        /\ nReq' = nReq + 1
        /\ otpStore' = out.store
        /\ otpAnswer' = [op |-> "send", email |-> email, otp |-> otp,
                         status |-> out.status, error |-> out.error, at |-> now]
        /\ otpSpent' = IF out.issued THEN otpSpent \ {key} ELSE otpSpent
        /\ otpIssued' = IF out.issued THEN MapPut(otpIssued, key, now) ELSE otpIssued
        /\ UNCHANGED <<smtpPass, now>>
        /\ UNCHANGED paymentVars
        /\ UNCHANGED clientVars

VerifyOtp(email, otp) ==
    LET out == VerifyOutcome(otpStore, email, otp, now)
        key == ToLowerCase(email)
    IN  /\ nReq < MaxOtpReq
        /\ nReq' = nReq + 1
        /\ otpStore' = out.store
        /\ otpAnswer' = [op |-> "verify", email |-> email, otp |-> otp,
                         status |-> out.status, error |-> out.error, at |-> now]
        /\ otpSpent' = IF out.status = 200 THEN otpSpent \cup {key} ELSE otpSpent
        /\ UNCHANGED <<smtpPass, now, otpIssued>>
        /\ UNCHANGED paymentVars
        /\ UNCHANGED clientVars

OtpTick ==
    /\ now + OtpTickMs <= MaxOtpTicks * OtpTickMs
    /\ now' = now + OtpTickMs
    /\ UNCHANGED <<otpStore, smtpPass, otpAnswer, otpSpent, otpIssued, nReq>>
    /\ UNCHANGED paymentVars
    /\ UNCHANGED clientVars

InitOtp == InitStores /\ smtpPass \in BOOLEAN

NextOtp ==
    \/ \E email \in Emails, otp \in Passcodes, mailSent \in BOOLEAN :
           SendOtp(email, otp, mailSent)
    \/ \E email \in Emails, otp \in Passcodes \cup {""} : VerifyOtp(email, otp)
    \/ OtpTick

SpecOtp == InitOtp /\ [][NextOtp]_vars

(***************************************************************************)
(* Longer histories of one account: up to MaxHistReq payments, with the    *)
(* clock moving in steps of an hour and a half, so that the payments can   *)
(* fall more than an hour apart and each into an hour of its own.          *)
(***************************************************************************)
MaxHistReq == 5

MaxHistTicks == 4

HistTickMs == 90 * 60 * 1000

HistRequests ==
    {[BaseReq EXCEPT !.amount = a] : a \in {1, 2}}
    \cup {[BaseReq EXCEPT !.amount = 2, !.ip = "8.8.8.8"]}

HistPayment(req) ==
    /\ inflight = {}
    /\ HandleWithin(req, MaxHistReq)
    /\ UNCHANGED <<inflight, nSent, overlapped>>

HistTick ==
    /\ now + HistTickMs <= MaxHistTicks * HistTickMs
    /\ now' = now + HistTickMs
    /\ UNCHANGED <<userFraudState, blockedFraudTransactions, userLedger, inflight,
                   last, adminAnswer, nReq, nScored, blockLog, nSent, overlapped, nBlocked>>
    /\ UNCHANGED otpVars
    /\ UNCHANGED clientVars

NextHist ==
    \/ \E req \in HistRequests : HistPayment(req)
    \/ HistTick

SpecHist == Init /\ [][NextHist]_vars

(***************************************************************************)
(* Amounts at the end of the doubles: payments of one account whose        *)
(* amount is 1 or 1e308.                                                   *)
(***************************************************************************)
MaxWideReq == 4

WideRequests ==
    {[BaseReq EXCEPT !.amount = a, !.type = t] :
        a \in {1, HugeAmount}, t \in {"transfer", "request"}}

WidePayment(req) ==
    /\ inflight = {}
    /\ HandleWithin(req, MaxWideReq)
    /\ UNCHANGED <<inflight, nSent, overlapped>>

NextWide ==
    \/ \E req \in WideRequests : WidePayment(req)
    \/ Tick

SpecWide == Init /\ [][NextWide]_vars

(***************************************************************************)
(* Claims                                                                  *)
(***************************************************************************)
RECURSIVE Reverse(_)
Reverse(list) == IF list = <<>> THEN <<>> ELSE Append(Reverse(Tail(list)), list[1])

ProfileOf(store, userId) ==
    IF userId \in DOMAIN store THEN store[userId] ELSE EmptyFraudState

\* This step handled a payment request.
PaymentStep == nReq' = nReq + 1 /\ last'.op = "payment"

LastUser == ToLowerCase(last.req.user_id)

\* C1: after N scored transactions of an account its amounts and timestamps
\* histories have length N and its geo-distances history max(0, N-1); so the
\* first two are equally long and the third is never longer.
C1_HistoryLengths ==
    \A u \in AccountIds :
        LET p == ProfileOf(userFraudState, u)
        IN  /\ (u \in DOMAIN userFraudState) <=> (nScored[u] > 0)
            /\ Len(p.amounts) = nScored[u]
            /\ Len(p.timestamps) = nScored[u]
            /\ Len(p.geoDistances) = Max(0, nScored[u] - 1)
            /\ Len(p.amounts) = Len(p.timestamps)
            /\ Len(p.geoDistances) <= Len(p.amounts)

C1_Witness ==
    /\ nScored["a1"] = 3
    /\ "a1" \in DOMAIN userFraudState
    /\ Len(userFraudState["a1"].geoDistances) = 2

\* C2: a well-formed payment request is answered BLOCK (status 403,
\* blocked: true) exactly when its fraud_risk_score is at least 0.7.
C2_BlockIffAtLeastThreshold ==
    (last.op = "payment" /\ last.scored) =>
        /\ (last.status = 403) <=> (last.scores.fraud_risk_score >= 7000)
        /\ last.blocked <=> (last.scores.fraud_risk_score >= 7000)

C2_Witness ==
    /\ last.op = "payment" /\ last.scored
    /\ last.status = 403 /\ last.blocked
    /\ last.scores.fraud_risk_score >= 7000
    /\ last.scores.fraud_risk_score < 7100

\* C3: a payment decided BLOCK leaves every account's ledger as it was.
C3_BlockLeavesLedger ==
    [][(PaymentStep /\ last'.status = 403) => userLedger' = userLedger]_vars

C3_Witness ==
    /\ last.op = "payment" /\ last.status = 403
    /\ LastUser \in DOMAIN userLedger
    /\ userLedger[LastUser].balances.savings < DefaultLedger.balances.savings

\* C4: whatever the order in which the concurrently sent requests of an
\* account are handled, once none is pending its amounts and timestamps
\* histories hold exactly one entry per request sent (two after two): no
\* update is lost and none is applied twice.
C4_NoLostUpdate ==
    \A u \in AccountIds :
        LET p == ProfileOf(userFraudState, u)
        IN  /\ Len(p.amounts) + Cardinality(PendingFor(u)) = nSent[u]
            /\ Len(p.timestamps) + Cardinality(PendingFor(u)) = nSent[u]

C4_Witness ==
    /\ overlapped
    /\ nSent["a1"] = 2 /\ nSent["b2"] = 0
    /\ PendingFor("a1") = {}
    /\ Len(ProfileOf(userFraudState, "a1").amounts) = 2
    /\ Len(ProfileOf(userFraudState, "a1").timestamps) = 2

\* C5: the transactions of one account are serialized: each one reads a
\* profile that holds the commit of every transaction of the account scored
\* before it, so no two of them are scored from the same profile.
C5_Serialized ==
    [][(PaymentStep /\ last'.scored) =>
          LET u == ToLowerCase(last'.req.user_id)
          IN  /\ last'.seen = nScored[u]
              /\ Len(ProfileOf(userFraudState, u).amounts) = nScored[u]
              /\ Len(userFraudState'[u].amounts) = last'.seen + 1]_vars

C5_Witness ==
    /\ overlapped
    /\ last.op = "payment" /\ last.scored /\ last.seen = 1
    /\ LastUser = "a1" /\ nScored["a1"] = 2 /\ nSent["b2"] = 0

\* C6: a scored transaction is committed whatever the decision: after a
\* BLOCK as after an ACCEPT the profile's amounts and timestamps end with
\* the transaction's, and the last-seen place, operator and time are its own.
C6_CommitInBothBranches ==
    [][(PaymentStep /\ last'.scored) =>
          LET u   == ToLowerCase(last'.req.user_id)
              old == ProfileOf(userFraudState, u)
              new == userFraudState'[u]
              geo == getGeo(last'.req.ip)
          IN  /\ last'.status \in {200, 403, 400}
              /\ new.amounts = Append(old.amounts, last'.req.amount)
              /\ new.timestamps = Append(old.timestamps, now)
              /\ new.lastLat = Some(geo.lat)
              /\ new.lastLon = Some(geo.lon)
              /\ new.lastAsn = Some(geo.asn)
              /\ new.lastTimestamp = Some(now)]_vars

C6_Witness ==
    /\ last.op = "payment" /\ last.status = 403
    /\ Len(userFraudState[LastUser].amounts) >= 2
    /\ userFraudState[LastUser].amounts[Len(userFraudState[LastUser].amounts)] = last.req.amount
    /\ userFraudState[LastUser].lastTimestamp = Some(last.at)
    /\ userFraudState[LastUser].lastAsn = Some("AS15169")

\* C7: a payment request with a zero or negative amount, or without an
\* account id, is answered with an error and changes no profile, no blocked
\* record and no ledger.
C7_MalformedRejected ==
    [][(PaymentStep /\ (last'.req.amount <= 0 \/ ToLowerCase(last'.req.user_id) = "")) =>
          /\ last'.status = 400
          /\ last'.error = "Invalid payment payload."
          /\ ~last'.scored
          /\ UNCHANGED <<userFraudState, blockedFraudTransactions, userLedger>>]_vars

C7_Witness ==
    /\ last.op = "payment" /\ last.req.amount < 0 /\ last.status = 400
    /\ "a1" \in DOMAIN userFraudState
    /\ blockedFraudTransactions # <<>>

\* C8 as stated: a payment whose network address is missing or not a known
\* address is rejected and changes nothing.
C8_AddressRejected ==
    [][(PaymentStep /\ last'.req.ip \notin DOMAIN fallbackGeo) =>
          /\ last'.status = 400
          /\ UNCHANGED <<userFraudState, blockedFraudTransactions, userLedger>>]_vars

\* C8 as amended: a payment whose network address is missing or unknown is
\* not rejected for it: when the rest of the payload is well formed it is
\* scored and committed with the sentinel place (0, 0, ASN_UNKNOWN).
C8_AddressResolvesToSentinel ==
    [][(PaymentStep /\ last'.req.ip \notin DOMAIN fallbackGeo /\ Scorable(last'.req)) =>
          LET u == ToLowerCase(last'.req.user_id)
          IN  /\ last'.scored
              /\ last'.error # "Invalid payment payload."
              /\ Len(userFraudState'[u].amounts)
                     = Len(ProfileOf(userFraudState, u).amounts) + 1
              /\ userFraudState'[u].lastLat = Some(0)
              /\ userFraudState'[u].lastLon = Some(0)
              /\ userFraudState'[u].lastAsn = Some("ASN_UNKNOWN")]_vars

C8_Witness ==
    /\ last.op = "payment" /\ last.req.ip = "" /\ last.scored
    /\ last.status = 200
    /\ userFraudState[LastUser].lastAsn = Some("ASN_UNKNOWN")

\* Scoring tx1 then tx2 and scoring tx2 then tx1 from the same store give
\* each transaction the same scores and leave the same store.
OrderIndependent(store, tx1, tx2) ==
    LET first1  == computeFraudScores(store, tx1)
        second2 == computeFraudScores(first1.store, tx2)
        first2  == computeFraudScores(store, tx2)
        second1 == computeFraudScores(first2.store, tx1)
    IN  /\ first1.scores = second1.scores
        /\ first2.scores = second2.scores
        /\ second2.store = second1.store

\* C9: scoring a transaction of one account leaves every other account's
\* profile as it was, and two transactions of different accounts, with
\* their timestamps, amounts and addresses fixed, get the same scores and
\* leave the same profiles in either order.
C9_AccountsIndependent ==
    /\ [](\A r1, r2 \in {r \in ConcRequests : Scorable(r)} :
            \A t1, t2 \in {now, now + TickMs} :
                ToLowerCase(r1.user_id) # ToLowerCase(r2.user_id) =>
                    OrderIndependent(userFraudState,
                                     MakeTx(ToLowerCase(r1.user_id), r1.amount, r1.ip, t1),
                                     MakeTx(ToLowerCase(r2.user_id), r2.amount, r2.ip, t2)))
    /\ [][(PaymentStep /\ last'.scored) =>
             \A v \in AccountIds \ {ToLowerCase(last'.req.user_id)} :
                 /\ (v \in DOMAIN userFraudState') <=> (v \in DOMAIN userFraudState)
                 /\ ProfileOf(userFraudState', v) = ProfileOf(userFraudState, v)]_vars

C9_Witness ==
    /\ last.op = "payment" /\ last.scored /\ LastUser = "b2"
    /\ nScored["a1"] = 2 /\ nScored["b2"] = 1
    /\ Len(userFraudState["a1"].amounts) = 2
    /\ overlapped

\* C10: the blocked list is most-recent-first: it is always the block
\* decisions in reverse order of time; a step changes it only by a BLOCK
\* decision putting its record in front of the records there, which stay as
\* they are; and the admin endpoint answers that list with its length.
C10_MostRecentFirst ==
    /\ [](blockedFraudTransactions = Reverse(blockLog))
    /\ [][\/ /\ blockedFraudTransactions' = blockedFraudTransactions
             /\ ~(PaymentStep /\ last'.status = 403)
          \/ /\ PaymentStep /\ last'.status = 403
             /\ Len(blockedFraudTransactions') = Len(blockedFraudTransactions) + 1
             /\ Tail(blockedFraudTransactions') = blockedFraudTransactions
             /\ blockedFraudTransactions'[1].user_id = ToLowerCase(last'.req.user_id)
             /\ blockedFraudTransactions'[1].timestamp = now]_vars
    /\ [][adminAnswer' # adminAnswer =>
             /\ adminAnswer'.items = Reverse(blockLog)
             /\ adminAnswer'.count = Len(blockLog)]_vars

C10_Witness ==
    /\ adminAnswer.count = 2
    /\ adminAnswer.items = blockedFraudTransactions
    /\ adminAnswer.items[1].timestamp > adminAnswer.items[2].timestamp

\* C11: a record is created only by a BLOCK decision: the blocked list
\* always holds as many records as payment requests were decided BLOCK, a
\* request that is accepted or rejected adds none, and every record's risk
\* is at least 0.7.
C11_RecordOnlyOnBlock ==
    /\ [](Len(blockedFraudTransactions) = nBlocked)
    /\ [](\A i \in 1..Len(blockedFraudTransactions) :
             blockedFraudTransactions[i].risk >= FRAUD_BLOCK_THRESHOLD)
    /\ [][(PaymentStep /\ last'.status # 403) =>
             blockedFraudTransactions' = blockedFraudTransactions]_vars

C11_Witness ==
    /\ nReq = 3 /\ nBlocked = 1 /\ Len(blockedFraudTransactions) = 1
    /\ nScored["a1"] = 2
    /\ last.op = "payment" /\ last.status = 400 /\ ~last.scored

\* C12: on the first transaction of an account (no prior position) the
\* speed, network-change and historical-deviation sub-terms are all 0, the
\* geo score is sigmoid(0), and no geo-distance is recorded, whatever place
\* the address resolves to, the unknown-address sentinel included.
C12_FirstNeverGeoFlagged ==
    [][(PaymentStep /\ last'.scored /\ last'.seen = 0) =>
          LET u   == ToLowerCase(last'.req.user_id)
              old == ProfileOf(userFraudState, u)
              geo == getGeo(last'.req.ip)
          IN  /\ ~HasPrior(old)
              /\ SpeedSub(old, geo, now) = 0
              /\ AsnSub(old, geo) = 0
              /\ HistSub(old, geo) = 0
              /\ GeoRaw(old, geo, now) = 0
              /\ last'.scores.geo_score = sigmoid(0)
              /\ userFraudState'[u].geoDistances = <<>>]_vars

C12_Witness ==
    /\ last.op = "payment" /\ last.scored /\ last.seen = 0
    /\ last.req.ip = "" /\ last.scores.geo_score = 5000
    /\ userFraudState[LastUser].geoDistances = <<>>
    /\ userFraudState[LastUser].lastAsn = Some("ASN_UNKNOWN")

\* C13 as stated: on the first transaction of an account the spending raw
\* score and the velocity raw score are both 0: the amount equals the
\* spending baseline and the window count equals the velocity baseline.
C13_FirstRawScoresZero ==
    [][(PaymentStep /\ last'.scored /\ last'.seen = 0) =>
          LET old == ProfileOf(userFraudState, ToLowerCase(last'.req.user_id))
          IN  /\ SpendRaw(old, last'.req.amount) = 0
              /\ VelocityRaw(old, now) = 0
              /\ WindowCount(old.timestamps, now) * ScoreScale
                     = mean(HourlyCounts(old.timestamps))]_vars

\* C13 as amended: on the first transaction of an account the spending raw
\* score is 0 (the amount is its own baseline, spending_score sigmoid(0)),
\* while the velocity raw score is not: the window count is 1, there are no
\* hour buckets so the baseline mean is 0, and (1 - 0) / (0 + EPSILON)
\* saturates the velocity score at 1.
C13_FirstSpendZeroVelocitySaturated ==
    [][(PaymentStep /\ last'.scored /\ last'.seen = 0) =>
          LET old == ProfileOf(userFraudState, ToLowerCase(last'.req.user_id))
          IN  /\ SpendRaw(old, last'.req.amount) = 0
              /\ last'.scores.spending_score = sigmoid(0)
              /\ WindowCount(old.timestamps, now) = 1
              /\ HourlyCounts(old.timestamps) = <<>>
              /\ VelocityRaw(old, now) = RawCap
              /\ last'.scores.velocity_score = ScoreScale]_vars

C13_Witness ==
    /\ last.op = "payment" /\ last.scored /\ last.seen = 0
    /\ last.req.amount = 2
    /\ last.scores.spending_score = 5000
    /\ last.scores.velocity_score = 10000

\* C14 as stated: the fraud_risk_score of an account's first transaction
\* is sigmoid(0) = 0.5.
C14_FirstScoreIsHalf ==
    (last.op = "payment" /\ last.scored /\ last.seen = 0) =>
        last.scores.fraud_risk_score = sigmoid(0)

\* C14 as amended: the fraud_risk_score of an account's first transaction
\* is the same for every amount and address, and it is
\* sigmoid(0.4 * 0.5 + 0.3 * 1 + 0.3 * 0.5) = sigmoid(0.65) = 0.6570:
\* spending and geo scores are sigmoid(0) = 0.5, the velocity score is 1.
C14_FirstScoreIsSigmoidOfPoint65 ==
    (last.op = "payment" /\ last.scored /\ last.seen = 0) =>
        /\ last.scores.spending_score = 5000
        /\ last.scores.velocity_score = 10000
        /\ last.scores.geo_score = 5000
        /\ last.scores.fraud_risk_score = sigmoid(6500)
        /\ last.scores.fraud_risk_score = 6570

C14_Witness ==
    /\ last.op = "payment" /\ last.scored /\ last.seen = 0
    /\ LastUser = "b2" /\ nScored["a1"] > 0
    /\ last.scores.fraud_risk_score = 6570

\* C15: a never-seen account is not an error and novelty alone does not
\* block: the first well-formed transaction of an account, whatever its
\* amount and address, is scored below 0.7, is not answered 403, adds no
\* blocked record, and creates the account's profile.
C15_FirstIsAccepted ==
    [][(PaymentStep /\ Scorable(last'.req)
           /\ ToLowerCase(last'.req.user_id) \notin DOMAIN userFraudState) =>
          LET u == ToLowerCase(last'.req.user_id)
          IN  /\ last'.scored /\ last'.seen = 0
              /\ last'.error # "Invalid payment payload."
              /\ last'.scores.fraud_risk_score < FRAUD_BLOCK_THRESHOLD
              /\ ~last'.blocked /\ last'.status # 403
              /\ blockedFraudTransactions' = blockedFraudTransactions
              /\ u \in DOMAIN userFraudState'
              /\ userFraudState'[u].amounts = <<last'.req.amount>>]_vars

C15_Witness ==
    /\ last.op = "payment" /\ last.scored /\ last.seen = 0
    /\ last.status = 200 /\ ~last.blocked
    /\ last.req.ip = "8.8.8.8" /\ last.req.amount = 2
    /\ userFraudState[LastUser].amounts = <<2>>
    /\ blockedFraudTransactions = <<>>

IsPrefix(s, t) == Len(s) <= Len(t) /\ SubSeq(t, 1, Len(s)) = s

\* C16: a profile comes into being only with the first scored transaction
\* of its account, as an empty profile (no history, null last-seen fields)
\* that this transaction is committed to; a profile that exists is never
\* removed or replaced, only extended by its own account's transactions;
\* the set of accounts with a profile only grows.
C16_ProfilesOnlyGrow ==
    [][/\ DOMAIN userFraudState \subseteq DOMAIN userFraudState'
       /\ \A u \in DOMAIN userFraudState :
             /\ IsPrefix(userFraudState[u].amounts, userFraudState'[u].amounts)
             /\ IsPrefix(userFraudState[u].timestamps, userFraudState'[u].timestamps)
             /\ IsPrefix(userFraudState[u].geoDistances, userFraudState'[u].geoDistances)
             /\ userFraudState'[u].lastTimestamp # Null
       /\ \A u \in DOMAIN userFraudState' \ DOMAIN userFraudState :
             LET created == getFraudState(userFraudState, u)[u]
             IN  /\ PaymentStep /\ last'.scored /\ last'.seen = 0
                 /\ u = ToLowerCase(last'.req.user_id)
                 /\ created.amounts = <<>> /\ created.timestamps = <<>>
                 /\ created.geoDistances = <<>>
                 /\ created.lastLat = Null /\ created.lastLon = Null
                 /\ created.lastAsn = Null /\ created.lastTimestamp = Null
                 /\ userFraudState'[u] =
                        Commit(created, last'.req.amount, now, getGeo(last'.req.ip))
       /\ ~(PaymentStep /\ last'.scored) => userFraudState' = userFraudState]_vars

C16_Witness ==
    /\ DOMAIN userFraudState = {"a1", "b2"}
    /\ Len(userFraudState["a1"].amounts) = 2
    /\ LastUser = "a1" /\ last.scored /\ last.seen = 1

\* This step handled a verify-otp request.
OtpVerifyStep == nReq' = nReq + 1 /\ otpAnswer'.op = "verify"

\* This step handled a send-otp request.
OtpSendStep == nReq' = nReq + 1 /\ otpAnswer'.op = "send"

\* C17: a passcode is single-use: a verification that succeeds removes the
\* stored passcode, and a verification for an email that was verified since
\* its last send-otp fails whatever passcode it carries, with the answer
\* that no OTP was requested.
C17_SingleUse ==
    [][OtpVerifyStep =>
          LET key == ToLowerCase(otpAnswer'.email)
          IN  /\ otpAnswer'.status = 200 =>
                    /\ key \in DOMAIN otpStore
                    /\ otpStore[key].otp = otpAnswer'.otp
                    /\ key \notin DOMAIN otpStore'
                    /\ key \notin otpSpent
              /\ key \in otpSpent =>
                    /\ otpAnswer'.status = 400
                    /\ otpAnswer'.otp # "" =>
                           otpAnswer'.error = "OTP not requested for this email."]_vars

C17_Witness ==
    /\ otpAnswer.op = "verify" /\ otpAnswer.status = 400
    /\ otpAnswer.email = "U@X.io" /\ otpAnswer.otp = "111111"
    /\ otpAnswer.error = "OTP not requested for this email."
    /\ "u@x.io" \in otpSpent
    /\ otpIssued["u@x.io"] = otpAnswer.at

\* C18: a passcode expires 5 minutes after it is issued: a verification
\* later than that never succeeds, the one that finds the stored passcode
\* expired removes it, and after that a verification is answered that no
\* OTP was requested.
C18_ExpiresAfterFiveMinutes ==
    [][/\ (OtpSendStep /\ otpAnswer'.status = 200) =>
             otpStore'[ToLowerCase(otpAnswer'.email)].expiresAt = now + 5 * 60 * 1000
       /\ OtpVerifyStep =>
             LET key  == ToLowerCase(otpAnswer'.email)
                 late == key \in DOMAIN otpIssued /\ now > otpIssued[key] + 5 * 60 * 1000
             IN  /\ late => otpAnswer'.status = 400
                 /\ (late /\ key \in DOMAIN otpStore /\ otpAnswer'.otp # "") =>
                        /\ otpAnswer'.error = "OTP expired. Please request a new OTP."
                        /\ key \notin DOMAIN otpStore'
                 /\ (key # "" /\ otpAnswer'.otp # "" /\ key \notin DOMAIN otpStore) =>
                        /\ otpAnswer'.error = "OTP not requested for this email."
                        /\ otpStore' = otpStore]_vars

C18_Witness ==
    /\ otpAnswer.op = "verify"
    /\ otpAnswer.error = "OTP not requested for this email."
    /\ otpAnswer.email = "v@y.io"
    /\ "v@y.io" \in DOMAIN otpIssued /\ "v@y.io" \notin otpSpent
    /\ now > otpIssued["v@y.io"] + 5 * 60 * 1000
    /\ "v@y.io" \notin DOMAIN otpStore

\* The history of a stable account as the transaction req meets it: every
\* amount equal to the transaction's, the timestamps more than an hour
\* apart and each in an hour of its own, every recorded distance 0 and the
\* last place and operator those the transaction resolves to.
StableHistory(old, req) ==
    LET geo == getGeo(req.ip)
        n   == Len(old.timestamps)
    IN  /\ Len(old.amounts) >= 1
        /\ \A i \in 1..Len(old.amounts) : old.amounts[i] = req.amount
        /\ \A i, j \in 1..n :
              i < j => /\ old.timestamps[j] - old.timestamps[i] > HourMs
                       /\ HourKey(old.timestamps[i]) # HourKey(old.timestamps[j])
        /\ \A i \in 1..Len(old.geoDistances) : old.geoDistances[i] = 0
        /\ old.lastLat = Some(geo.lat) /\ old.lastLon = Some(geo.lon)
        /\ old.lastAsn = Some(geo.asn)

\* C19: a further transaction of the same amount from the same place, for
\* an account with a stable history (such as four times the same amount in
\* four separate hours), has spending raw score 0, spending_score
\* sigmoid(0) = 0.5, and is decided ACCEPT: its score is below 0.7, it is
\* not answered 403 and it adds no blocked record.
C19_StableAccountAccepted ==
    [][(PaymentStep /\ last'.scored
           /\ StableHistory(ProfileOf(userFraudState, ToLowerCase(last'.req.user_id)),
                            last'.req)) =>
          /\ SpendRaw(userFraudState[ToLowerCase(last'.req.user_id)], last'.req.amount) = 0
          /\ last'.scores.spending_score = sigmoid(0)
          /\ last'.scores.fraud_risk_score < FRAUD_BLOCK_THRESHOLD
          /\ ~last'.blocked /\ last'.status # 403
          /\ blockedFraudTransactions' = blockedFraudTransactions]_vars

C19_Witness ==
    /\ last.op = "payment" /\ last.scored /\ last.seen = 4 /\ last.status = 200
    /\ userFraudState["a1"].amounts = <<2, 2, 2, 2, 2>>
    /\ userFraudState["a1"].geoDistances = <<0, 0, 0, 0>>
    /\ \A i \in 1..4 :
          userFraudState["a1"].timestamps[i + 1] - userFraudState["a1"].timestamps[i] > HourMs
    /\ last.scores.spending_score = 5000
    /\ last.scores.fraud_risk_score = 6225
    /\ blockedFraudTransactions = <<>>

\* The profile holds exactly one transaction, and a transaction at txTime
\* from the place geo falls in the same minute, more than 10,000 km away.
ImpossibleTravel(old, geo, txTime) ==
    /\ Len(old.amounts) = 1 /\ HasPrior(old)
    /\ txTime >= ValueOf(old.lastTimestamp)
    /\ txTime - ValueOf(old.lastTimestamp) < 60 * 1000
    /\ haversineKm(ValueOf(old.lastLat), ValueOf(old.lastLon), geo.lat, geo.lon) > 1000

C21_ScoresInRange ==
    (last.op = "payment" /\ last.scored) =>
        /\ last.scores.fraud_risk_score > 0
        /\ last.scores.fraud_risk_score < ScoreScale
        /\ last.scores.spending_score >= 0 /\ last.scores.spending_score <= ScoreScale
        /\ last.scores.velocity_score >= 0 /\ last.scores.velocity_score <= ScoreScale
        /\ last.scores.geo_score >= 0 /\ last.scores.geo_score <= ScoreScale

\* Address strings: the table's, a missing one, one that is no address, the
\* IPv4-mapped form of a known one and a private one.
AddressStrings ==
    {"8.8.8.8", "1.1.1.1", "127.0.0.1", "::1", "", "not-an-address",
     "::ffff:127.0.0.1", "10.0.0.1"}

KnownAddresses == {"8.8.8.8", "1.1.1.1", "127.0.0.1", "::1"}

\* C22 as stated: the resolver answers every address with a place and an
\* operator id, and every address absent from the table with the sentinel
\* (0, 0, "UNKNOWN"), which is then what the profile remembers.
C22_ResolvesToUnknown ==
    /\ [](\A ip \in AddressStrings \ KnownAddresses :
             getGeo(ip) = [lat |-> 0, lon |-> 0, asn |-> "UNKNOWN"])
    /\ [][(PaymentStep /\ last'.scored /\ last'.req.ip \notin KnownAddresses) =>
             userFraudState'[ToLowerCase(last'.req.user_id)].lastAsn = Some("UNKNOWN")]_vars

\* C22 as amended: the resolver answers every address with a place and an
\* operator id: a known address with its table entry, every other with the
\* sentinel (0, 0, "ASN_UNKNOWN"); the place a scored payment leaves in the
\* profile is that answer, the same for the same address every time.
C22_ResolverTotal ==
    /\ [](\A ip \in AddressStrings :
             /\ DOMAIN getGeo(ip) = {"lat", "lon", "asn"}
             /\ ip \in KnownAddresses => getGeo(ip) = fallbackGeo[ip]
             /\ ip \notin KnownAddresses =>
                    getGeo(ip) = [lat |-> 0, lon |-> 0, asn |-> "ASN_UNKNOWN"])
    /\ [][(PaymentStep /\ last'.scored) =>
             LET new == userFraudState'[ToLowerCase(last'.req.user_id)]
                 ip  == last'.req.ip
             IN  IF ip \in KnownAddresses
                 THEN /\ new.lastLat = Some(fallbackGeo[ip].lat)
                      /\ new.lastLon = Some(fallbackGeo[ip].lon)
                      /\ new.lastAsn = Some(fallbackGeo[ip].asn)
                 ELSE /\ new.lastLat = Some(0) /\ new.lastLon = Some(0)
                      /\ new.lastAsn = Some("ASN_UNKNOWN")]_vars

C22_Witness ==
    /\ last.op = "payment" /\ last.scored /\ last.seen = 1
    /\ last.req.ip = "not-an-address"
    /\ userFraudState[LastUser].lastAsn = Some("ASN_UNKNOWN")
    /\ userFraudState[LastUser].geoDistances = <<1278>>

\* C24: scoring precedes the commit: the four scores of a transaction are
\* those its amount, time and place get from the profile as it was before
\* the transaction (its means and deviations, hour buckets, last place and
\* distances), and its own amount, timestamp and distance are in the
\* profile only afterwards.
C24_ScoredFromPriorProfile ==
    [][(PaymentStep /\ last'.scored) =>
          LET u   == ToLowerCase(last'.req.user_id)
              old == ProfileOf(userFraudState, u)
              geo == getGeo(last'.req.ip)
          IN  /\ last'.seen = Len(old.amounts)
              /\ last'.scores = Scores(old, last'.req.amount, now, geo)
              /\ last'.scores.spending_score = sigmoid(SpendRaw(old, last'.req.amount))
              /\ last'.scores.velocity_score = sigmoid(VelocityRaw(old, now))
              /\ last'.scores.geo_score = sigmoid(GeoRaw(old, geo, now))
              /\ Len(userFraudState'[u].amounts) = Len(old.amounts) + 1
              /\ Len(userFraudState'[u].timestamps) = Len(old.timestamps) + 1
              /\ Len(userFraudState'[u].geoDistances) =
                     Len(old.geoDistances) + (IF Len(old.amounts) > 0 THEN 1 ELSE 0)]_vars

\* A second transaction with a new amount: scored from the profile before
\* it the spending score is 1, from the profile after it it would be 0.7311.
C24_Witness ==
    /\ last.op = "payment" /\ last.scored /\ last.seen = 1
    /\ userFraudState[LastUser].amounts = <<1, 2>>
    /\ last.scores.spending_score = 10000
    /\ sigmoid(SpendRaw(userFraudState[LastUser], last.req.amount)) = 7311

\* The number of entries of a list of timestamps that lie in [lo, hi].
RECURSIVE CountWithin(_, _, _)
CountWithin(timestamps, lo, hi) ==
    IF timestamps = <<>> THEN 0
    ELSE (IF lo <= timestamps[1] /\ timestamps[1] <= hi THEN 1 ELSE 0)
         + CountWithin(Tail(timestamps), lo, hi)

\* C25: the window count of a transaction at time t is one plus the number
\* of the account's earlier timestamps ts with t - 1h <= ts <= t, both ends
\* included: it is at least 1 and at most the history length plus 1, a
\* timestamp exactly one hour old counts, and it is the count the velocity
\* score is made from.
C25_WindowCount ==
    [][(PaymentStep /\ last'.scored) =>
          LET old == ProfileOf(userFraudState, ToLowerCase(last'.req.user_id))
              nw  == WindowCount(old.timestamps, now)
              hc  == HourlyCounts(old.timestamps)
          IN  /\ nw = 1 + CountWithin(old.timestamps, now - HourMs, now)
              /\ 1 <= nw /\ nw <= Len(old.timestamps) + 1
              /\ (\E i \in 1..Len(old.timestamps) : old.timestamps[i] = now - HourMs) => nw >= 2
              /\ (\A i \in 1..Len(old.timestamps) : old.timestamps[i] < now - HourMs) => nw = 1
              /\ last'.scores.velocity_score =
                     sigmoid(SignedDivEps(
                         (1 + CountWithin(old.timestamps, now - HourMs, now)) * ScoreScale
                             - (IF Len(hc) > 0 THEN mean(hc) ELSE 0),
                         IF Len(hc) > 1 THEN std(hc) ELSE 0))]_vars

\* The one earlier timestamp is exactly one hour old and is counted: the
\* count is 2 against a baseline of 1, and the velocity score is 1.
C25_Witness ==
    /\ last.op = "payment" /\ last.scored /\ last.seen = 1
    /\ userFraudState[LastUser].timestamps = <<last.at - HourMs, last.at>>
    /\ last.scores.velocity_score = 10000


\* The ledger getUserLedger would hand out for an account.
LedgerOf(ledgers, userId) ==
    IF userId \in DOMAIN ledgers THEN ledgers[userId] ELSE DefaultLedger

\* C26 as stated: every payment request answered 400 leaves the profiles,
\* the blocked list and the ledgers as they were.
C26_Every400LeavesState ==
    [][(PaymentStep /\ last'.status = 400) =>
          /\ userFraudState' = userFraudState
          /\ blockedFraudTransactions' = blockedFraudTransactions
          /\ userLedger' = userLedger]_vars

\* C26: a payment request answered 400 for an invalid payload leaves the
\* profiles, the blocked list and the ledgers as they were.  One answered
\* 400 for insufficient savings or for an unknown payment type has been
\* scored first: the account's profile has grown by this transaction and no
\* other profile has changed, no blocked record is added, the account's
\* ledger exists afterwards (the default one if it did not exist) and no
\* balance, transaction list or request list of any account has changed.
C26_400AfterScoringKeepsProfile ==
    [][(PaymentStep /\ last'.status = 400) =>
          LET u == ToLowerCase(last'.req.user_id)
          IN  /\ blockedFraudTransactions' = blockedFraudTransactions
              /\ IF last'.error = "Invalid payment payload."
                 THEN /\ ~last'.scored
                      /\ userFraudState' = userFraudState
                      /\ userLedger' = userLedger
                 ELSE /\ last'.scored
                      /\ last'.error \in {"Insufficient savings balance for transfer.",
                                          "Unknown payment type."}
                      /\ userFraudState'[u].amounts =
                             Append(ProfileOf(userFraudState, u).amounts, last'.req.amount)
                      /\ userFraudState'[u].timestamps =
                             Append(ProfileOf(userFraudState, u).timestamps, now)
                      /\ \A v \in DOMAIN userFraudState \ {u} :
                             userFraudState'[v] = userFraudState[v]
                      /\ DOMAIN userLedger' = DOMAIN userLedger \cup {u}
                      /\ \A v \in DOMAIN userLedger' :
                             userLedger'[v] = LedgerOf(userLedger, v)]_vars

\* A transfer beyond the savings of an account that has paid before is
\* answered 400, and the account's history holds it.
C26_Witness ==
    /\ last.op = "payment" /\ last.status = 400 /\ last.scored
    /\ last.error = "Insufficient savings balance for transfer."
    /\ last.seen = 1
    /\ Len(userFraudState[LastUser].amounts) = 2
    /\ userFraudState[LastUser].amounts[2] = last.req.amount
    /\ userLedger[LastUser].balances.savings < DefaultLedger.balances.savings

\* C27: the savings balance of every ledger is never negative.  A transfer
\* is applied only when its amount is at most the savings balance: applied,
\* it takes exactly the amount off the savings, leaves the other balances
\* and the request list, and puts exactly one entry in front of the
\* transaction list; a larger one changes no ledger entry.  A payment of
\* type request changes no balance.
C27_SavingsNeverNegative ==
    /\ [](\A v \in DOMAIN userLedger : userLedger[v].balances.savings >= 0)
    /\ [][(PaymentStep /\ last'.scored /\ ~last'.blocked) =>
            LET u     == ToLowerCase(last'.req.user_id)
                old   == LedgerOf(userLedger, u)
                new   == userLedger'[u]
                paise == last'.req.amount * PaisePerAmountUnit
            IN  /\ (last'.req.type = "transfer" /\ paise <= old.balances.savings) =>
                      /\ last'.status = 200
                      /\ new.balances.savings = old.balances.savings - paise
                      /\ new.balances.current = old.balances.current
                      /\ new.balances.creditDue = old.balances.creditDue
                      /\ Len(new.transactions) = Len(old.transactions) + 1
                      /\ Tail(new.transactions) = old.transactions
                      /\ new.transactions[1].amount = -paise
                      /\ new.requests = old.requests
                /\ (last'.req.type = "transfer" /\ paise > old.balances.savings) =>
                      /\ last'.status = 400
                      /\ new = old
                /\ last'.req.type = "request" =>
                      /\ last'.status = 200
                      /\ new.balances = old.balances
                /\ \A v \in DOMAIN userLedger \ {u} : userLedger'[v] = userLedger[v]]_vars

\* After a transfer was applied, a transfer beyond what is left is refused.
C27_Witness ==
    /\ last.op = "payment" /\ last.status = 400 /\ last.scored /\ ~last.blocked
    /\ last.req.type = "transfer"
    /\ LastUser \in DOMAIN userLedger
    /\ last.req.amount * PaisePerAmountUnit > userLedger[LastUser].balances.savings
    /\ userLedger[LastUser].balances.savings = DefaultLedger.balances.savings - 2 * PaisePerAmountUnit
    /\ Len(userLedger[LastUser].transactions) = Len(DefaultLedger.transactions) + 1


\* C28: no two records of the blocked list carry the same transaction_id,
\* whatever the order and the timing of the payment requests, two requests
\* handled within the same clock millisecond included.
C28_TransactionIdsUnique ==
    \A i, j \in 1..Len(blockedFraudTransactions) :
        i # j => blockedFraudTransactions[i].transaction_id
                     # blockedFraudTransactions[j].transaction_id


\* C29: whenever send-otp answers with an error (invalid email, SMTP not
\* configured, or the mail transport failed) no passcode record is stored
\* or replaced, so no later verify-otp succeeds with the passcode of the
\* failed request.
C29_FailedSendStoresNothing ==
    [][(OtpSendStep /\ otpAnswer'.status # 200) => otpStore' = otpStore]_vars

\* C30: at most one passcode is active per lower-cased email.  A send-otp
\* that succeeds leaves, under the lower-cased email, exactly the record of
\* the new passcode and no other key changed, so an earlier, different
\* passcode no longer verifies; a verify-otp succeeds only with the stored
\* passcode; and one with a wrong passcode that has not expired is answered
\* "Invalid OTP." and leaves the store as it was, so the stored passcode
\* still verifies.
C30_OneActivePasscode ==
    [][/\ (OtpSendStep /\ otpAnswer'.status = 200) =>
             LET key == ToLowerCase(otpAnswer'.email)
             IN  /\ key \in DOMAIN otpStore'
                 /\ DOMAIN otpStore' = DOMAIN otpStore \cup {key}
                 /\ otpStore'[key] = [otp |-> otpAnswer'.otp, expiresAt |-> now + 5 * 60 * 1000]
                 /\ \A k \in DOMAIN otpStore \ {key} : otpStore'[k] = otpStore[k]
                 /\ (key \in DOMAIN otpStore /\ otpStore[key].otp # otpAnswer'.otp) =>
                        VerifyOutcome(otpStore', otpAnswer'.email, otpStore[key].otp, now).status = 400
       /\ OtpVerifyStep =>
             LET key == ToLowerCase(otpAnswer'.email)
             IN  /\ otpAnswer'.status = 200 =>
                        key \in DOMAIN otpStore /\ otpAnswer'.otp = otpStore[key].otp
                 /\ (/\ key \in DOMAIN otpStore /\ otpAnswer'.otp # ""
                     /\ otpAnswer'.otp # otpStore[key].otp
                     /\ now <= otpStore[key].expiresAt) =>
                        /\ otpAnswer'.status = 400
                        /\ otpAnswer'.error = "Invalid OTP."
                        /\ otpStore' = otpStore
                        /\ VerifyOutcome(otpStore', otpAnswer'.email,
                                         otpStore[key].otp, now).status = 200]_vars

\* A wrong passcode typed with the email in capitals, before the stored one
\* expires: it is refused, the record is still there, and the stored
\* passcode would verify.
C30_Witness ==
    /\ otpAnswer.op = "verify" /\ otpAnswer.error = "Invalid OTP."
    /\ otpAnswer.email = "U@X.io"
    /\ "u@x.io" \in DOMAIN otpStore /\ "U@X.io" \notin DOMAIN otpStore
    /\ otpStore["u@x.io"].otp # otpAnswer.otp
    /\ otpAnswer.at > otpIssued["u@x.io"]
    /\ VerifyOutcome(otpStore, "u@x.io", otpStore["u@x.io"].otp, now).status = 200


(***************************************************************************)
(* The login page, script.js.  A click handler runs to its first await;    *)
(* what follows the await runs when the answer arrives, and other clicks   *)
(* are handled in between.  The text fields are read when a button is      *)
(* clicked: what the user has typed is an input of the click.  The         *)
(* controls of the login view are clicked while that view is active, the   *)
(* forgot-MPIN link while the role is "user" (line 91) and the button is   *)
(* enabled (line 106), the logout button while it is not hidden.           *)
(***************************************************************************)
\* Lines 61-64.
demoCreds == [userMpin |-> "123456", admin |-> [email |-> "admin@bank.com", mpin |-> "999999"]]

MaxClicks == 4

MaxVerifyPending == 2

TypedEmails == {"U@X.io", "admin@bank.com", ""}

TypedMpins == {"123456", "999999", ""}

\* Everything of the payment side but the ledgers.
engineVars == <<userFraudState, blockedFraudTransactions, inflight, last, adminAnswer,
                nScored, blockLog, nSent, overlapped, nBlocked>>

\* The next thing the page did.
ClientEvent(op, via, email, otp) ==
    [seq |-> clientLast.seq + 1, op |-> op, via |-> via, email |-> email, otp |-> otp]

\* Lines 84-97.
RoleClick(role) ==
    /\ "login" \in activeViews
    /\ nClicks < MaxClicks
    /\ nClicks' = nClicks + 1
    /\ selectedRole' = role
    /\ otpRequested' = FALSE
    /\ localOtp' = ""
    /\ clientLast' = ClientEvent("role", "none", "", "")
    /\ UNCHANGED <<loggedInUserId, activeViews, logoutHidden, forgotPending,
                   verifyPending, bankingState>>
    /\ UNCHANGED <<userLedger, now, nReq>>
    /\ UNCHANGED engineVars
    /\ UNCHANGED otpVars

\* Lines 99-114: up to the request for a passcode.
ForgotClick(typed) ==
    LET email == ToLowerCase(typed)
    IN  /\ "login" \in activeViews
        /\ selectedRole = "user"
        /\ forgotPending = Null
        /\ nClicks < MaxClicks
        /\ nClicks' = nClicks + 1
        /\ forgotPending' = IF email = "" THEN Null ELSE Some(email)
        /\ clientLast' = ClientEvent("forgot", "none", email, "")
        /\ UNCHANGED <<selectedRole, otpRequested, localOtp, loggedInUserId, activeViews,
                       logoutHidden, verifyPending, bankingState>>
        /\ UNCHANGED <<userLedger, now, nReq>>
        /\ UNCHANGED engineVars
        /\ UNCHANGED otpVars

\* Lines 116-133, with the server's handling of the request (lines 184-215
\* of the server): the answer arrives, or the request fails.
ForgotAnswered(online, otp, mailSent, demoOtp) ==
    LET email == ValueOf(forgotPending)
        out   == SendOutcome(otpStore, smtpPass, email, otp, mailSent, now)
        ok    == online /\ out.status = 200
    IN  /\ forgotPending # Null
        /\ forgotPending' = Null
        /\ otpRequested' = TRUE
        /\ localOtp' = IF ok THEN "" ELSE demoOtp
        /\ clientLast' = ClientEvent("forgot-answered", "none", email, "")
        /\ IF online
           THEN /\ otpStore' = out.store
                /\ otpAnswer' = [op |-> "send", email |-> email, otp |-> otp,
                                 status |-> out.status, error |-> out.error, at |-> now]
                /\ otpSpent' = IF out.issued THEN otpSpent \ {email} ELSE otpSpent
                /\ otpIssued' = IF out.issued THEN MapPut(otpIssued, email, now) ELSE otpIssued
           ELSE UNCHANGED <<otpStore, otpAnswer, otpSpent, otpIssued>>
        /\ UNCHANGED <<selectedRole, loggedInUserId, activeViews, logoutHidden,
                       verifyPending, bankingState, nClicks>>
        /\ UNCHANGED <<userLedger, now, nReq, smtpPass>>
        /\ UNCHANGED engineVars

\* Lines 378-388 with fetchUserLedger, lines 285-296, and the server's
\* dashboard route: the user view is shown and the ledger is fetched.
loginToUser(email, online) ==
    /\ loggedInUserId' = email
    /\ activeViews' = (activeViews \ {"login", "admin"}) \cup {"user"}
    /\ logoutHidden' = FALSE
    /\ userLedger' = IF online THEN getUserLedger(userLedger, email) ELSE userLedger
    /\ bankingState' = IF online THEN getUserLedger(userLedger, email)[email]
                       ELSE bankingState

\* Lines 390-398.
loginToAdmin ==
    /\ activeViews' = (activeViews \ {"login", "user"}) \cup {"admin"}
    /\ logoutHidden' = FALSE
    /\ UNCHANGED <<loggedInUserId, userLedger, bankingState>>

\* A toast and nothing else.
showToast == UNCHANGED <<loggedInUserId, activeViews, logoutHidden, userLedger, bankingState>>

\* Lines 137-192: what a click on the login button comes to.
LoginOutcome(role, requested, demoOtp, email, mpin, otp) ==
    IF email = "" THEN "toast"
    ELSE IF role = "admin"
    THEN IF email # demoCreds.admin.email THEN "toast"
         ELSE IF mpin = "" THEN "toast"
         ELSE IF mpin # demoCreds.admin.mpin THEN "toast"
         ELSE "admin"
    ELSE IF mpin # "" /\ mpin = demoCreds.userMpin THEN "mpin"
    ELSE IF ~requested THEN "toast"
    ELSE IF otp = "" THEN "toast"
    ELSE IF demoOtp # ""
    THEN IF otp # demoOtp THEN "toast" ELSE "local"
    ELSE "verify"

\* Lines 136-198: up to the request for a verification.
LoginClick(typed, mpin, otp, online) ==
    LET email == ToLowerCase(typed)
        what  == LoginOutcome(selectedRole, otpRequested, localOtp, email, mpin, otp)
    IN  /\ "login" \in activeViews
        /\ nClicks < MaxClicks
        /\ what = "verify" => Cardinality(verifyPending) < MaxVerifyPending
        /\ nClicks' = nClicks + 1
        /\ clientLast' = ClientEvent("login", what, email, otp)
        /\ localOtp' = IF what = "local" THEN "" ELSE localOtp
        /\ verifyPending' = IF what = "verify"
                            THEN verifyPending \cup {[email |-> email, otp |-> otp]}
                            ELSE verifyPending
        /\ IF what \in {"mpin", "local"} THEN loginToUser(email, online)
           ELSE IF what = "admin" THEN loginToAdmin
           ELSE showToast
        /\ UNCHANGED <<selectedRole, otpRequested, forgotPending>>
        /\ UNCHANGED <<now, nReq>>
        /\ UNCHANGED engineVars
        /\ UNCHANGED otpVars

\* Lines 200-208, with the server's handling of the request (lines 217-241
\* of the server): the answer arrives, or the request fails.
VerifyAnswered(p, online) ==
    LET out == VerifyOutcome(otpStore, p.email, p.otp, now)
        ok  == online /\ out.status = 200
    IN  /\ p \in verifyPending
        /\ verifyPending' = verifyPending \ {p}
        /\ clientLast' = ClientEvent("verify-answered", IF ok THEN "server" ELSE "toast",
                                     p.email, p.otp)
        /\ IF online
           THEN /\ otpStore' = out.store
                /\ otpAnswer' = [op |-> "verify", email |-> p.email, otp |-> p.otp,
                                 status |-> out.status, error |-> out.error, at |-> now]
                /\ otpSpent' = IF out.status = 200 THEN otpSpent \cup {p.email} ELSE otpSpent
           ELSE UNCHANGED <<otpStore, otpAnswer, otpSpent>>
        /\ IF ok THEN loginToUser(p.email, online) ELSE showToast
        /\ UNCHANGED <<selectedRole, otpRequested, localOtp, forgotPending, nClicks>>
        /\ UNCHANGED <<now, nReq, smtpPass, otpIssued>>
        /\ UNCHANGED engineVars

\* Lines 271-283.
LogoutClick ==
    /\ ~logoutHidden
    /\ nClicks < MaxClicks
    /\ nClicks' = nClicks + 1
    /\ activeViews' = (activeViews \ {"user", "admin"}) \cup {"login"}
    /\ logoutHidden' = TRUE
    /\ otpRequested' = FALSE
    /\ localOtp' = ""
    /\ loggedInUserId' = ""
    /\ clientLast' = ClientEvent("logout", "none", "", "")
    /\ UNCHANGED <<selectedRole, forgotPending, verifyPending, bankingState>>
    /\ UNCHANGED <<userLedger, now, nReq>>
    /\ UNCHANGED engineVars
    /\ UNCHANGED otpVars

NextClient ==
    \/ \E role \in {"user", "admin"} : RoleClick(role)
    \/ \E typed \in TypedEmails : ForgotClick(typed)
    \/ \E online \in BOOLEAN, otp \in Passcodes, mailSent \in BOOLEAN, demoOtp \in Passcodes :
           ForgotAnswered(online, otp, mailSent, demoOtp)
    \/ \E typed \in TypedEmails, mpin \in TypedMpins, otp \in Passcodes \cup {""},
          online \in BOOLEAN : LoginClick(typed, mpin, otp, online)
    \/ \E p \in verifyPending, online \in BOOLEAN : VerifyAnswered(p, online)
    \/ LogoutClick
    \/ OtpTick

SpecClient == InitOtp /\ [][NextClient]_vars

\* This step is one of the page's.
ClientStep == clientLast'.seq = clientLast.seq + 1

\* C31: a login in the user role without the valid MPIN reaches the user
\* view only if a passcode was requested since the last logout or role
\* switch (otpRequested is set when the view is reached) and the passcode
\* entered is the demo passcode of the page or was confirmed by verify-otp
\* for the email entered; and a logout resets otpRequested, the demo
\* passcode and the logged-in user id and leaves only the login view shown.
C31_OtpLoginOnlyAfterRequest ==
    [][ClientStep =>
          /\ clientLast'.via \in {"local", "server"} =>
                /\ "user" \in activeViews'
                /\ loggedInUserId' = clientLast'.email
                /\ otpRequested
                /\ otpRequested'
          /\ clientLast'.via = "local" =>
                localOtp # "" /\ clientLast'.otp = localOtp
          /\ clientLast'.via = "server" =>
                /\ clientLast'.email \in DOMAIN otpStore
                /\ otpStore[clientLast'.email].otp = clientLast'.otp
                /\ now <= otpStore[clientLast'.email].expiresAt
          /\ ("user" \in activeViews' /\ "user" \notin activeViews) =>
                clientLast'.via \in {"mpin", "local", "server"}
          /\ clientLast'.op = "logout" =>
                /\ ~otpRequested'
                /\ localOtp' = ""
                /\ loggedInUserId' = ""
                /\ activeViews' = {"login"}]_vars

=============================================================================
